---- MODULE Spec2Model ----
(***************************************************************************)
(* A model of volpy/geometry.py: Line2D, Triangle and TriangularMesh.      *)
(*                                                                         *)
(* Numbers.  The source computes with sympy expressions over numeric       *)
(* coordinates.  The model takes integer coordinates and computes every    *)
(* derived quantity as an exact fraction <<n, d>> in lowest terms, d > 0.  *)
(* A division by zero does not raise in sympy: expr/0 is zoo*expr and 0/0  *)
(* is nan.  These two are the fractions <<1, 0>> and <<0, 0>>.             *)
(***************************************************************************)
EXTENDS Integers, Sequences, FiniteSets, TLC

\* Coordinates x and y of a triangle's or a line's points range over 0..MaxXY.
MaxXY == 2
\* Heights z of a triangle's points are -1, 0 or MaxZ.
MaxZ == 2
\* Heights of the rows of a mesh's point cloud range over 0..MaxHeight.
MaxHeight == 1
\* The longest triangulation of a mesh.
MaxTriangles == 2

VARIABLES
    point_A, point_B, point_C, \* Line2D's and Triangle's fields
    line,                      \* the value Line2D.get_line_equation returned
    plane,                     \* Triangle.get_volume: local `plane`
    points,                    \* Triangle.get_volume: local `points`, sorted
    volume1, volume2,          \* Triangle.get_volume: the two strip integrals
    total_volume,              \* the value Triangle.get_volume returned
    point_cloud, data,         \* TriangularMesh's fields
    mesh_volume, iteration,    \* TriangularMesh.get_volume: locals
    i,                         \* TriangularMesh.get_volume: the loop index (1-based)
    progress,                  \* the calls the progress sink has received
    pc                         \* the position in the running method

vars == <<point_A, point_B, point_C, line, plane, points, volume1, volume2,
          total_volume, point_cloud, data, mesh_volume, iteration, i,
          progress, pc>>

-----------------------------------------------------------------------------
(* Exact arithmetic *)

Abs(n) == IF n < 0 THEN 0 - n ELSE n

RECURSIVE GCD(_, _)
GCD(m, n) == IF n = 0 THEN m ELSE GCD(n, m % n)

NaN == <<0, 0>>
Zoo == <<1, 0>>
Zero == <<0, 1>>

IsFinite(p) == p[2] # 0

\* The fraction n/d in lowest terms; n/0 is zoo and 0/0 is nan.
Frac(n, d) ==
    IF d = 0 THEN (IF n = 0 THEN NaN ELSE Zoo)
    ELSE LET g == GCD(Abs(n), Abs(d))
             s == IF d < 0 THEN 0 - 1 ELSE 1
         IN  <<(s * n) \div g, (s * d) \div g>>

Num(n) == <<n, 1>>

RAdd(p, q) ==
    IF p = NaN \/ q = NaN THEN NaN
    ELSE IF p = Zoo \/ q = Zoo THEN (IF p = q THEN NaN ELSE Zoo)
    ELSE Frac(p[1] * q[2] + q[1] * p[2], p[2] * q[2])

RNeg(p) == <<0 - p[1], p[2]>>

RSub(p, q) == RAdd(p, IF IsFinite(q) THEN RNeg(q) ELSE q)

RMul(p, q) ==
    IF p = NaN \/ q = NaN THEN NaN
    ELSE IF p = Zoo \/ q = Zoo
         THEN (IF p = Zero \/ q = Zero THEN NaN ELSE Zoo)
    ELSE Frac(p[1] * q[1], p[2] * q[2])

RAbs(p) == <<Abs(p[1]), p[2]>>

-----------------------------------------------------------------------------
(* CartesianCoordinate *)

CartesianCoordinate(x, y, z) == [x |-> x, y |-> y, z |-> z]

\* point_P - point_Q: the displacement vector
Minus(P, Q) == <<P.x - Q.x, P.y - Q.y, P.z - Q.z>>

\* np.cross with the sign of the second component lost
CrossWrongSign(u, v) == <<u[2] * v[3] - u[3] * v[2],
                          u[1] * v[3] - u[3] * v[1],
                          u[1] * v[2] - u[2] * v[1]>>

\* np.cross
Cross(u, v) == <<u[2] * v[3] - u[3] * v[2],
                 u[3] * v[1] - u[1] * v[3],
                 u[1] * v[2] - u[2] * v[1]>>

-----------------------------------------------------------------------------
(* Line2D *)

None == [isNone |-> TRUE, slope |-> Zero, linear_constant |-> Zero]

\* get_line_equation with linear_constant = slope*xA + yA
GetLineEquationWrongConstant(A, B) ==
    IF B.x - A.x = 0 THEN None
    ELSE LET slope == Frac(B.y - A.y, B.x - A.x)
             linear_constant == RAdd(RMul(slope, Num(A.x)), Num(A.y))
         IN  [isNone |-> FALSE, slope |-> slope,
              linear_constant |-> linear_constant]

\* Line2D(A, B).get_line_equation(): None, or slope*x + linear_constant
GetLineEquation(A, B) ==
    IF B.x - A.x = 0 THEN None
    ELSE LET slope == Frac(B.y - A.y, B.x - A.x)
             linear_constant == RAdd(RMul(RNeg(slope), Num(A.x)), Num(A.y))
         IN  [isNone |-> FALSE, slope |-> slope,
              linear_constant |-> linear_constant]

\* the value of a line equation at x
LineAt(l, x) == RAdd(RMul(l.slope, Num(x)), l.linear_constant)

-----------------------------------------------------------------------------
(* Triangle *)

\* get_plane_equation with zo taken from point_B
GetPlaneEquationMixedOrigin(A, B, C) ==
    LET vector_AB == Minus(B, A)
        vector_BC == Minus(C, B)
        normal_vector == Cross(vector_AB, vector_BC)
    IN  [a |-> normal_vector[1], b |-> normal_vector[2],
         c |-> normal_vector[3], xo |-> A.x, yo |-> A.y, zo |-> B.z]

\* Triangle(A, B, C).get_plane_equation(): the expression
\* ((-a*(x-xo) - b*(y-yo))/c) + zo, kept as its six constants.  Nothing
\* tests c: with c = 0 the expression is zoo*(...) + zo, or nan when a and
\* b are 0 too.
GetPlaneEquation(A, B, C) ==
    LET vector_AB == Minus(B, A)
        vector_BC == Minus(C, B)
        normal_vector == Cross(vector_AB, vector_BC)
    IN  [a |-> normal_vector[1], b |-> normal_vector[2],
         c |-> normal_vector[3], xo |-> A.x, yo |-> A.y, zo |-> A.z]

\* the value of the plane expression at (x, y)
PlaneAt(p, x, y) ==
    RAdd(Frac(0 - p.a * (x - p.xo) - p.b * (y - p.yo), p.c), Num(p.zo))

\* The plane expression as px*x + py*y + p0 (c # 0).
PlaneX(p) == Frac(0 - p.a, p.c)
PlaneY(p) == Frac(0 - p.b, p.c)
Plane0(p) == RAdd(Frac(p.a * p.xo + p.b * p.yo, p.c), Num(p.zo))

\* integrate(plane, (y, l_from, l_to), (x, x_from, x_to)) in closed form:
\* the inner integral is the quadratic c2*x^2 + c1*x + c0, and the outer
\* one its antiderivative between x_from and x_to.
Integrate(p, x_from, x_to, l_from, l_to) ==
    LET px == PlaneX(p)
        py == PlaneY(p)
        p0 == Plane0(p)
        m1 == l_from.slope
        k1 == l_from.linear_constant
        m2 == l_to.slope
        k2 == l_to.linear_constant
        half == Frac(1, 2)
        dm == RSub(m2, m1)
        dk == RSub(k2, k1)
        c2 == RAdd(RMul(px, dm),
                   RMul(RMul(py, half), RSub(RMul(m2, m2), RMul(m1, m1))))
        c1 == RAdd(RAdd(RMul(px, dk), RMul(p0, dm)),
                   RMul(py, RSub(RMul(m2, k2), RMul(m1, k1))))
        c0 == RAdd(RMul(p0, dk),
                   RMul(RMul(py, half), RSub(RMul(k2, k2), RMul(k1, k1))))
        d1 == Num(x_to - x_from)
        d2 == Frac(x_to * x_to - x_from * x_from, 2)
        d3 == Frac(x_to * x_to * x_to - x_from * x_from * x_from, 3)
    IN  RAdd(RAdd(RMul(c2, d3), RMul(c1, d2)), RMul(c0, d1))

\* compute_double_integral without the test for a vertical line
ComputeDoubleIntegralNoVerticalTest(p, outer_boundary_from, outer_boundary_to, line_from_equation, line_to_equation) ==
    IF p.c = 0 /\ p.a = 0 /\ p.b = 0 THEN NaN
    ELSE IF line_from_equation = line_to_equation THEN Zero
    ELSE IF p.c = 0 THEN Zoo
    ELSE Integrate(p, outer_boundary_from, outer_boundary_to,
                   line_from_equation, line_to_equation)

\* compute_double_integral of Triangle.get_volume.  A nan integrand gives
\* nan; equal y limits give sympy's trivial zero; a zoo integrand between
\* different limits stays undefined.
ComputeDoubleIntegral(p, outer_boundary_from, outer_boundary_to, line_from_equation, line_to_equation) ==
    IF line_from_equation.isNone \/ line_to_equation.isNone THEN Zero
    ELSE IF p.c = 0 /\ p.a = 0 /\ p.b = 0 THEN NaN
    ELSE IF line_from_equation = line_to_equation THEN Zero
    ELSE IF p.c = 0 THEN Zoo
    ELSE Integrate(p, outer_boundary_from, outer_boundary_to,
                   line_from_equation, line_to_equation)

\* volume1 of get_volume, from the sorted points
Volume1(p, s) ==
    ComputeDoubleIntegral(p, s[1].x, s[2].x,
                          GetLineEquation(s[1], s[3]),
                          GetLineEquation(s[1], s[2]))

\* volume2 integrated from sorted_point_A.x instead of sorted_point_B.x
Volume2WholeRange(p, s) ==
    ComputeDoubleIntegral(p, s[1].x, s[3].x,
                          GetLineEquation(s[1], s[3]),
                          GetLineEquation(s[2], s[3]))

\* volume2 of get_volume, from the sorted points
Volume2(p, s) ==
    ComputeDoubleIntegral(p, s[2].x, s[3].x,
                          GetLineEquation(s[1], s[3]),
                          GetLineEquation(s[2], s[3]))

\* total_volume = abs(volume1) + abs(volume2)
TotalVolume(v1, v2) == RAdd(RAbs(v1), RAbs(v2))

\* The arrangements of three points.
Arrangements(A, B, C) ==
    {<<A, B, C>>, <<A, C, B>>, <<B, A, C>>,
     <<B, C, A>>, <<C, A, B>>, <<C, B, A>>}

\* CartesianCoordinate's order: on x first, then y, then z.
PointLeq(P, Q) ==
    \/ P.x < Q.x
    \/ P.x = Q.x /\ P.y < Q.y
    \/ P.x = Q.x /\ P.y = Q.y /\ P.z <= Q.z

\* points.sort() under an order that is on x first: every arrangement
\* ascending in x, whatever breaks the ties.
SortedByX(A, B, C) ==
    {s \in Arrangements(A, B, C) : s[1].x <= s[2].x /\ s[2].x <= s[3].x}

\* points.sort() under CartesianCoordinate's order
Sort(A, B, C) ==
    IF PointLeq(A, B)
    THEN (IF PointLeq(B, C) THEN <<A, B, C>>
          ELSE IF PointLeq(A, C) THEN <<A, C, B>> ELSE <<C, A, B>>)
    ELSE (IF PointLeq(A, C) THEN <<B, A, C>>
          ELSE IF PointLeq(B, C) THEN <<B, C, A>> ELSE <<C, B, A>>)

\* Triangle(A, B, C).get_volume()
GetVolume(A, B, C) ==
    LET p == GetPlaneEquation(A, B, C)
        s == Sort(A, B, C)
    IN  TotalVolume(Volume1(p, s), Volume2(p, s))

-----------------------------------------------------------------------------
(* TriangularMesh *)

\* self.point_cloud.iloc[k] resolved through its x, y, z fields
Row(cloud, k) == CartesianCoordinate(cloud[k].x, cloud[k].y, cloud[k].z)

\* The triangle of the index triple t: rows t[1], t[2], t[3] in this order.
TriangleOf(cloud, t) == <<Row(cloud, t[1]), Row(cloud, t[2]), Row(cloud, t[3])>>

\* volume = triangle.get_volume() for the index triple t
SimplexVolume(cloud, t) ==
    LET T == TriangleOf(cloud, t) IN GetVolume(T[1], T[2], T[3])

\* mesh_volume = volume
AccumulateOverwrite(total, volume) == volume

\* mesh_volume += volume
Accumulate(total, volume) == RAdd(total, volume)

\* print_progress(i, data_amount, ...): the loop index, not the count
ProgressCallLoopIndex(current, total) == <<current - 1, total>>

\* print_progress(iteration, data_amount, ...): the call the sink receives
ProgressCall(current, total) == <<current, total>>

-----------------------------------------------------------------------------
(* Inputs *)

Heights == {0 - 1, 0, MaxZ}

Coordinates == [x : 0 .. MaxXY, y : 0 .. MaxXY, z : Heights]

\* The point clouds: the corners of the unit square, each at some height.
SquareXY == <<<<0, 0>>, <<1, 0>>, <<1, 1>>, <<0, 1>>>>

PointClouds ==
    {[k \in DOMAIN SquareXY |->
        [x |-> SquareXY[k][1], y |-> SquareXY[k][2], z |-> h[k]]] :
     h \in [DOMAIN SquareXY -> 0 .. MaxHeight]}

\* The index triples a triangulation of four points may hold: each three of
\* the rows, in ascending order of the indices and in one other order.
Simplices ==
    {<<1, 2, 3>>, <<1, 3, 4>>, <<1, 2, 4>>, <<2, 3, 4>>,
     <<3, 1, 2>>, <<4, 3, 1>>}

Triangulations ==
    UNION {[1 .. n -> Simplices] : n \in 0 .. MaxTriangles}

NoPoint == CartesianCoordinate(0, 0, 0)
NoPlane == [a |-> 0, b |-> 0, c |-> 0, xo |-> 0, yo |-> 0, zo |-> 0]

-----------------------------------------------------------------------------
(* Line2D.get_line_equation as a state machine *)

InitLine ==
    /\ point_A \in Coordinates
    /\ point_B \in Coordinates
    /\ point_C = NoPoint
    /\ line = None
    /\ plane = NoPlane
    /\ points = <<>>
    /\ volume1 = Zero
    /\ volume2 = Zero
    /\ total_volume = Zero
    /\ point_cloud = <<>>
    /\ data = <<>>
    /\ mesh_volume = Zero
    /\ iteration = 0
    /\ i = 1
    /\ progress = <<>>
    /\ pc = "line"

LineGetLineEquation ==
    /\ pc = "line"
    /\ line' = GetLineEquation(point_A, point_B)
    /\ pc' = "line_done"
    /\ UNCHANGED <<point_A, point_B, point_C, plane, points, volume1, volume2,
                   total_volume, point_cloud, data, mesh_volume, iteration, i,
                   progress>>

NextLine == LineGetLineEquation

SpecLine == InitLine /\ [][NextLine]_vars

-----------------------------------------------------------------------------
(* Triangle.get_volume as a state machine *)

InitTriangle ==
    /\ point_A \in Coordinates
    /\ point_B \in Coordinates
    /\ point_C \in Coordinates
    /\ line = None
    /\ plane = NoPlane
    /\ points = <<>>
    /\ volume1 = Zero
    /\ volume2 = Zero
    /\ total_volume = Zero
    /\ point_cloud = <<>>
    /\ data = <<>>
    /\ mesh_volume = Zero
    /\ iteration = 0
    /\ i = 1
    /\ progress = <<>>
    /\ pc = "plane"

\* plane = self.get_plane_equation()
TriangleGetPlaneEquation ==
    /\ pc = "plane"
    /\ plane' = GetPlaneEquation(point_A, point_B, point_C)
    /\ pc' = "sort"
    /\ UNCHANGED <<point_A, point_B, point_C, line, points, volume1, volume2,
                   total_volume, point_cloud, data, mesh_volume, iteration, i,
                   progress>>

\* points = [A, B, C]; points.sort()
TriangleSort ==
    /\ pc = "sort"
    /\ points' \in SortedByX(point_A, point_B, point_C)
    /\ pc' = "integral1"
    /\ UNCHANGED <<point_A, point_B, point_C, line, plane, volume1, volume2,
                   total_volume, point_cloud, data, mesh_volume, iteration, i,
                   progress>>

\* Compute double integral 1
TriangleIntegral1 ==
    /\ pc = "integral1"
    /\ volume1' = Volume1(plane, points)
    /\ pc' = "integral2"
    /\ UNCHANGED <<point_A, point_B, point_C, line, plane, points, volume2,
                   total_volume, point_cloud, data, mesh_volume, iteration, i,
                   progress>>

\* Compute double integral 2
TriangleIntegral2 ==
    /\ pc = "integral2"
    /\ volume2' = Volume2(plane, points)
    /\ pc' = "sum"
    /\ UNCHANGED <<point_A, point_B, point_C, line, plane, points, volume1,
                   total_volume, point_cloud, data, mesh_volume, iteration, i,
                   progress>>

\* Sum and return
TriangleReturn ==
    /\ pc = "sum"
    /\ total_volume' = TotalVolume(volume1, volume2)
    /\ pc' = "done"
    /\ UNCHANGED <<point_A, point_B, point_C, line, plane, points, volume1,
                   volume2, point_cloud, data, mesh_volume, iteration, i,
                   progress>>

NextTriangle ==
    \/ TriangleGetPlaneEquation
    \/ TriangleSort
    \/ TriangleIntegral1
    \/ TriangleIntegral2
    \/ TriangleReturn

SpecTriangle == InitTriangle /\ [][NextTriangle]_vars

-----------------------------------------------------------------------------
(* TriangularMesh.get_volume as a state machine *)

InitMesh ==
    /\ point_cloud \in PointClouds
    /\ data \in Triangulations
    /\ mesh_volume = Zero
    /\ iteration = 0
    /\ i = 1
    /\ progress = <<>>
    /\ point_A = NoPoint
    /\ point_B = NoPoint
    /\ point_C = NoPoint
    /\ line = None
    /\ plane = NoPlane
    /\ points = <<>>
    /\ volume1 = Zero
    /\ volume2 = Zero
    /\ total_volume = Zero
    /\ pc = "loop"

\* One pass of the loop body up to the call of print_progress.
MeshLoopBody ==
    /\ pc = "loop"
    /\ i <= Len(data)
    /\ LET T == TriangleOf(point_cloud, data[i])
       IN  /\ point_A' = T[1]
           /\ point_B' = T[2]
           /\ point_C' = T[3]
           /\ total_volume' = GetVolume(T[1], T[2], T[3])
    /\ mesh_volume' = Accumulate(mesh_volume, total_volume')
    /\ iteration' = iteration + 1
    /\ pc' = "print_progress"
    /\ UNCHANGED <<line, plane, points, volume1, volume2, point_cloud, data,
                   i, progress>>

\* print_progress returns: the loop goes on with the next index.
MeshPrintProgress ==
    /\ pc = "print_progress"
    /\ progress' = Append(progress, ProgressCall(iteration, Len(data)))
    /\ i' = i + 1
    /\ pc' = "loop"
    /\ UNCHANGED <<point_A, point_B, point_C, line, plane, points, volume1,
                   volume2, total_volume, point_cloud, data, mesh_volume,
                   iteration>>

\* print_progress raises: nothing in get_volume catches it.
MeshPrintProgressRaises ==
    /\ pc = "print_progress"
    /\ progress' = Append(progress, ProgressCall(iteration, Len(data)))
    /\ pc' = "raised"
    /\ UNCHANGED <<point_A, point_B, point_C, line, plane, points, volume1,
                   volume2, total_volume, point_cloud, data, mesh_volume,
                   iteration, i>>

\* return mesh_volume
MeshReturn ==
    /\ pc = "loop"
    /\ i > Len(data)
    /\ pc' = "returned"
    /\ UNCHANGED <<point_A, point_B, point_C, line, plane, points, volume1,
                   volume2, total_volume, point_cloud, data, mesh_volume,
                   iteration, i, progress>>

NextMesh ==
    \/ MeshLoopBody
    \/ MeshPrintProgress
    \/ MeshPrintProgressRaises
    \/ MeshReturn

SpecMesh == InitMesh /\ [][NextMesh]_vars

-----------------------------------------------------------------------------
(* Properties of Triangle.get_volume, under SpecTriangle *)

\* Twice the area of the (x, y) footprint of the triangle A, B, C.
Area2(A, B, C) ==
    Abs(A.x * (B.y - C.y) + B.x * (C.y - A.y) + C.x * (A.y - B.y))

SameSide(A, B, C) ==
    \/ A.z >= 0 /\ B.z >= 0 /\ C.z >= 0
    \/ A.z <= 0 /\ B.z <= 0 /\ C.z <= 0

\* C1: with c # 0 and the three heights all >= 0 or all <= 0, get_volume
\* returns footprint_area * |zA + zB + zC| / 3, the volume between the plane
\* and z = 0 over the footprint; A=(0,0,0), B=(2,0,0), C=(0,2,2) gives 4/3
\* and heights all 0 give 0.
C1_VolumeUnderPlane ==
    (pc = "done" /\ plane.c # 0 /\ SameSide(point_A, point_B, point_C)) =>
        /\ total_volume =
               Frac(Area2(point_A, point_B, point_C)
                        * Abs(point_A.z + point_B.z + point_C.z), 6)
        /\ (point_A.z = 0 /\ point_B.z = 0 /\ point_C.z = 0) =>
               total_volume = Zero
        /\ ( /\ point_A = CartesianCoordinate(0, 0, 0)
             /\ point_B = CartesianCoordinate(2, 0, 0)
             /\ point_C = CartesianCoordinate(0, 2, 2) ) =>
               total_volume = <<4, 3>>

C1_Witness ==
    /\ pc = "done"
    /\ point_A = CartesianCoordinate(0, 0, 0)
    /\ point_B = CartesianCoordinate(2, 0, 0)
    /\ point_C = CartesianCoordinate(0, 2, 2)
    /\ plane.c # 0
    /\ total_volume = <<4, 3>>

\* C2: get_volume returns the same value for every ordering of the three
\* vertices.  The value returned for (A, B, C) is that of (B, A, C) and of
\* (B, C, A); every ordering of every triple is an input, and the two
\* reorderings generate all six.
C2_OrderInvariant ==
    pc = "done" =>
        /\ GetVolume(point_B, point_A, point_C) = total_volume
        /\ GetVolume(point_B, point_C, point_A) = total_volume

C2_Witness ==
    /\ pc = "done"
    /\ point_A.x > point_B.x
    /\ point_B.x > point_C.x
    /\ point_A.z # point_B.z
    /\ plane.c # 0
    /\ IsFinite(total_volume)
    /\ total_volume # Zero

Collinear(A, B, C) == Cross(Minus(B, A), Minus(C, B)) = <<0, 0, 0>>

PlaneThroughVertices ==
    /\ PlaneAt(plane, point_A.x, point_A.y) = Num(point_A.z)
    /\ PlaneAt(plane, point_B.x, point_B.y) = Num(point_B.z)
    /\ PlaneAt(plane, point_C.x, point_C.y) = Num(point_C.z)

C4_DegenerateRaises ==
    pc \in {"sort", "done"} => plane.c # 0

\* C5: get_volume of a triangle with two coincident vertices returns 0.
C5_CoincidentIsZero ==
    ( /\ pc = "done"
      /\ \/ point_A = point_B
         \/ point_B = point_C
         \/ point_A = point_C ) => total_volume = Zero

\* C10: a strip with a vertical bounding edge contributes exactly 0; with
\* exactly two vertices on one x the total is the other strip's volume, and
\* with all three on one x the total is 0.
C10_VerticalStrip ==
    pc = "done" =>
        /\ (points[1].x = points[2].x \/ points[1].x = points[3].x) =>
               volume1 = Zero
        /\ (points[2].x = points[3].x \/ points[1].x = points[3].x) =>
               volume2 = Zero
        /\ (points[1].x = points[2].x /\ points[2].x < points[3].x) =>
               total_volume = RAbs(volume2)
        /\ (points[1].x < points[2].x /\ points[2].x = points[3].x) =>
               total_volume = RAbs(volume1)
        /\ (points[1].x = points[3].x) => total_volume = Zero

C10_Witness ==
    /\ pc = "done"
    /\ points[1].x = points[2].x
    /\ points[2].x < points[3].x
    /\ volume1 = Zero
    /\ IsFinite(total_volume)
    /\ total_volume # Zero
    /\ total_volume = RAbs(volume2)

-----------------------------------------------------------------------------
(* Properties of Line2D.get_line_equation, under SpecLine *)

\* C7: get_line_equation returns None exactly when point_B.x = point_A.x;
\* otherwise slope = (yB-yA)/(xB-xA), the constant is yA - slope*xA, and the
\* line passes through the (x, y) of both points.
C7_LineEquation ==
    pc = "line_done" =>
        /\ line.isNone <=> (point_B.x = point_A.x)
        /\ ~line.isNone =>
               /\ line.slope = Frac(point_B.y - point_A.y,
                                    point_B.x - point_A.x)
               /\ line.linear_constant =
                      RSub(Num(point_A.y), RMul(line.slope, Num(point_A.x)))
               /\ LineAt(line, point_A.x) = Num(point_A.y)
               /\ LineAt(line, point_B.x) = Num(point_B.y)

C7_Witness ==
    /\ pc = "line_done"
    /\ point_B.x < point_A.x
    /\ point_A.x # 0
    /\ ~line.isNone
    /\ line.slope[1] < 0
    /\ line.slope[2] > 1
    /\ LineAt(line, point_B.x) = Num(point_B.y)

-----------------------------------------------------------------------------
(* Properties of TriangularMesh.get_volume, under SpecMesh *)

\* The sum of the volumes of the first k triangles of the triangulation d.
RECURSIVE SumFirst(_, _, _)
SumFirst(cloud, d, k) ==
    IF k = 0 THEN Zero
    ELSE RAdd(SumFirst(cloud, d, k - 1), SimplexVolume(cloud, d[k]))

FlatAt(cloud, h) == \A k \in DOMAIN cloud : cloud[k].z = h

\* C6: after k passes mesh_volume is the sum of the first k per-triangle
\* volumes; at return k is the number of triples; the unit square at height
\* h split into ABC and ACD gives h.
C6_UnweightedSum ==
    /\ mesh_volume = SumFirst(point_cloud, data, iteration)
    /\ pc = "returned" => iteration = Len(data)
    /\ \A h \in 0 .. MaxHeight :
           ( /\ pc = "returned"
             /\ FlatAt(point_cloud, h)
             /\ data = <<<<1, 2, 3>>, <<1, 3, 4>>>> ) => mesh_volume = Num(h)

C6_Witness ==
    /\ pc = "returned"
    /\ FlatAt(point_cloud, 1)
    /\ data = <<<<1, 2, 3>>, <<1, 3, 4>>>>
    /\ iteration = Len(data)
    /\ mesh_volume = Num(1)

\* C8: a failure of the progress sink does not abort get_volume.  "raised"
\* is get_volume left by the sink's exception, the remaining triangles
\* unprocessed and no sum returned.
C8_SinkFailureDoesNotAbort ==
    pc # "raised"

\* C9: the sink is called once after each pass has added its volume, with
\* (1,N), (2,N), ..., in this order; N calls precede the return; with N = 0
\* there is no call and 0 is returned.
C9_ProgressCalls ==
    /\ progress = [j \in 1 .. Len(progress) |-> <<j, Len(data)>>]
    /\ Len(progress) =
           IF pc = "print_progress" THEN iteration - 1 ELSE iteration
    /\ pc = "print_progress" => (iteration = i /\ iteration <= Len(data))
    /\ pc = "loop" => iteration = i - 1
    /\ pc = "returned" => Len(progress) = Len(data)
    /\ (pc = "returned" /\ Len(data) = 0) =>
           (progress = <<>> /\ mesh_volume = Zero)

C9_Witness ==
    /\ pc = "returned"
    /\ Len(data) = MaxTriangles
    /\ Len(progress) = Len(data)
    /\ progress[1] = <<1, Len(data)>>
    /\ progress[Len(data)] = <<Len(data), Len(data)>>

====
